---- MODULE Spec2Model ----
(***************************************************************************)
(* Model of the catalog service in src/main.py: the tables items,          *)
(* categories and item_category, and the HTTP routes that read and write   *)
(* them, each through one request-scoped SQLAlchemy session.               *)
(*                                                                         *)
(* A route handler is an operator from the committed database D and the    *)
(* request's parameters to an outcome [db, status, body]: the database the *)
(* request leaves behind and the response it sends.  The actions apply the *)
(* handlers to the current database.                                       *)
(***************************************************************************)
EXTENDS Integers, Sequences, FiniteSets, Bags, TLC

\* ------------------------------------------------------------------ bounds
\* item ids handed out by the primary key, and named in requests
MaxItemId == 2

ItemIds == 1..MaxItemId
Sessions == {1, 2}

\* Optional[T]: None, or a value
None == <<>>
Some(x) == <<x>>

\* category names in requests; names are unique, so these are also all the
\* categories there can be, with ids 1, 2, ...
CatNames == {"Office", "Books"}
CatIds == 1..Cardinality(CatNames)

\* max_price defaults to float('inf'): a number above every price
Infinity == 1000

\* request bodies of create_item / update_item
ItemCreate ==
    {[name |-> "Pen", description |-> None, price |-> 1],
     [name |-> "Ink", description |-> Some("blue"), price |-> 2]}

\* the item_ids query parameter of update_category: IN (...) ignores the
\* order of the ids, so the lists are taken in ascending order
IdLists ==
    {<<>>} \cup {<<i>> : i \in ItemIds}
           \cup {l \in {<<i, j>> : i \in ItemIds, j \in ItemIds} : l[1] <= l[2]}
ItemIdsParam == {None} \cup {Some(l) : l \in IdLists}

\* the query parameters of filter_items
CategoriesParam ==
    {None, Some(<<>>), Some(<<"Office">>), Some(<<"Books", "Office">>)}
MinPrices == {0, 2}
MaxPrices == {1, Infinity}

\* ------------------------------------------------------------------- state
VARIABLES
    items,          \* table items: id -> [name, description, price]
    categories,     \* table categories: id -> name
    item_category,  \* table item_category: a bag of rows <<item_id, category_id>>
    resp,           \* the last HTTP response: the route, the status, the error detail
    sess            \* add_item_to_category requests in flight, one session each

vars == <<items, categories, item_category, resp, sess>>

\* the committed database a session reads
DB == [items |-> items, categories |-> categories, item_category |-> item_category]

Range(s) == {s[k] : k \in 1..Len(s)}

\* rows of a result set, in primary-key order
RECURSIVE sorted_ids(_)
sorted_ids(S) ==
    IF S = {} THEN <<>>
    ELSE LET m == CHOOSE x \in S : \A y \in S : x <= y
         IN <<m>> \o sorted_ids(S \ {m})

\* Item.id, an autoincrement primary key: above the key of every stored row
new_item_ids(D) == {i \in ItemIds : \A e \in DOMAIN D.items : i > e}

\* Category.id: categories are never deleted, so the next key is the count plus one
new_category_id(D) == Cardinality(DOMAIN D.categories) + 1

\* Item.categories: the categories the join table links to item i
Item_categories(D, i) ==
    {c \in DOMAIN D.categories : CopiesIn(<<i, c>>, D.item_category) > 0}

\* Category.items: the items the join table links to category c
Category_items(D, c) ==
    {i \in DOMAIN D.items : CopiesIn(<<i, c>>, D.item_category) > 0}

ItemResponse(D, i) ==
    LET cs == sorted_ids(Item_categories(D, i))
    IN [id |-> i,
        name |-> D.items[i].name,
        description |-> D.items[i].description,
        price |-> D.items[i].price,
        categories |-> [k \in 1..Len(cs) |-> D.categories[cs[k]]]]

CategoryResponse(D, c) ==
    LET is == sorted_ids(Category_items(D, c))
    IN [id |-> c,
        name |-> D.categories[c],
        items |-> [k \in 1..Len(is) |-> ItemResponse(D, is[k])]]

\* --------------------------------------------------------- the session
\* get_db: the session is closed when the request ends; what it did not
\* commit is rolled back
get_db_commits_on_close(D, pending) == pending
get_db(D, pending) == D

\* raise HTTPException(status_code, detail): the handler stops, get_db closes the session
HTTPException(D, pending, status_code, detail) ==
    [db |-> get_db(D, pending), status |-> status_code, body |-> <<[detail |-> detail]>>]

\* a handler that returns without committing
Return(D, pending, body) == [db |-> get_db(D, pending), status |-> 200, body |-> body]

\* the rows of categories of one name: what SELECT ... WHERE name = :name
\* returns, and what the unique index on name looks up
categories_named_never(cats, name) == {}
categories_named(cats, name) == {c \in DOMAIN cats : cats[c] = name}

\* Query.first(): None, or the first row
first_none(S) == None
first(S) == IF S = {} THEN None ELSE Some(CHOOSE x \in S : \A y \in S : x <= y)

\* Query.get(id): None, or the row of that primary key
get(rows, id) == IF id \in DOMAIN rows THEN Some(id) ELSE None

\* Column('name', unique=True): the index refuses a second row of one name
unique_violation(cats) ==
    \E c \in DOMAIN cats : \E d \in categories_named(cats, cats[c]) : d # c

\* db.commit(): flushes the pending changes; a constraint violation is an
\* unhandled IntegrityError: the request ends 500 and the session rolls back
commit(D, pending, body) ==
    IF unique_violation(pending.categories)
    THEN HTTPException(D, pending, 500, "Internal Server Error")
    ELSE [db |-> pending, status |-> 200, body |-> body]

\* ------------------------------------------------------------ item routes
\* POST /items/; id is the key the database assigns
create_item(D, item, id) ==
    LET s == [D EXCEPT !.items = (id :> item) @@ @]
    IN commit(D, s, <<ItemResponse(s, id)>>)

\* PUT /items/{item_id}
update_item_upsert(D, item_id, item) ==
    LET s == [D EXCEPT !.items = (item_id :> item) @@ @]
    IN commit(D, s, <<ItemResponse(s, item_id)>>)
update_item(D, item_id, item) ==
    IF get(D.items, item_id) = None
    THEN HTTPException(D, D, 404, "item not found")
    ELSE LET s == [D EXCEPT !.items =
                      [i \in DOMAIN @ |-> IF i = item_id THEN item ELSE @[i]]]
         IN commit(D, s, <<ItemResponse(s, item_id)>>)

\* db.delete(db_item): the unit of work deletes the item's rows of the
\* secondary table, then the item's row
session_delete_item_row_only(D, item_id) ==
    [D EXCEPT !.items = [i \in DOMAIN @ \ {item_id} |-> @[i]]]
session_delete(D, item_id) ==
    [D EXCEPT
        !.items = [i \in DOMAIN @ \ {item_id} |-> @[i]],
        !.item_category = [r \in {x \in DOMAIN @ : x[1] # item_id} |-> @[r]]]

\* DELETE /items/{item_id}
delete_item(D, item_id) ==
    IF get(D.items, item_id) = None
    THEN HTTPException(D, D, 404, "item not found")
    ELSE commit(D, session_delete(D, item_id), <<[message |-> "item deleted"]>>)

\* -------------------------------------------------------- category routes
\* POST /categories/
create_category(D, category) ==
    LET existing_category == first(categories_named(D.categories, category.name))
    IN IF existing_category # None
       THEN HTTPException(D, D, 400, "category name already exists")
       ELSE LET id == new_category_id(D)
                s == [D EXCEPT !.categories = (id :> category.name) @@ @]
            IN commit(D, s, <<CategoryResponse(s, id)>>)

\* GET /categories/
get_categories(D) ==
    LET cs == sorted_ids(DOMAIN D.categories)
    IN Return(D, D, [k \in 1..Len(cs) |-> CategoryResponse(D, cs[k])])

\* category.items.append(item): one more row of the join table
append_item(D, category_id, item_id) ==
    [D EXCEPT !.item_category = @ (+) SetToBag({<<item_id, category_id>>})]

\* item not in category.items
not_in_category_unchecked(D, category_id, item_id) == TRUE
not_in_category(D, category_id, item_id) == item_id \notin Category_items(D, category_id)

\* POST /categories/{category_id}/items/{item_id}
add_item_to_category(D, category_id, item_id) ==
    IF get(D.categories, category_id) = None
    THEN HTTPException(D, D, 404, "category not found")
    ELSE IF get(D.items, item_id) = None
    THEN HTTPException(D, D, 404, "item not found")
    ELSE IF not_in_category(D, category_id, item_id)
    THEN LET s == append_item(D, category_id, item_id)
         IN commit(D, s, <<ItemResponse(s, item_id)>>)
    ELSE Return(D, D, <<ItemResponse(D, item_id)>>)

\* db.query(Item).filter(Item.id.in_(item_ids)).all()
query_items_in(D, item_ids) == {i \in DOMAIN D.items : i \in Range(item_ids)}

\* len(items) != len(item_ids)
items_missing(found, item_ids) == Cardinality(found) # Len(item_ids)

\* db_category.items = items: rows of items no longer listed are deleted,
\* rows of newly listed items are inserted, the other rows stay
set_category_items(D, category_id, found) ==
    LET ic == D.item_category
        kept == [r \in {x \in DOMAIN ic : x[2] # category_id \/ x[1] \in found} |-> ic[r]]
        added == {<<i, category_id>> : i \in found \ Category_items(D, category_id)}
    IN [D EXCEPT !.item_category = kept (+) SetToBag(added)]

\* existing_category and existing_category.id != category_id
name_taken_any(existing_category, category_id) == existing_category # None
name_taken_by_other(existing_category, category_id) ==
    existing_category # None /\ existing_category[1] # category_id

\* PUT /categories/{category_id}
update_category(D, category_id, category, item_ids) ==
    IF get(D.categories, category_id) = None
    THEN HTTPException(D, D, 404, "category not found")
    ELSE IF name_taken_by_other(
                first(categories_named(D.categories, category.name)), category_id)
    THEN HTTPException(D, D, 400, "category name already exists")
    ELSE LET s1 == [D EXCEPT !.categories =
                       [c \in DOMAIN @ |-> IF c = category_id THEN category.name ELSE @[c]]]
         IN IF item_ids # None
            THEN LET found == query_items_in(s1, item_ids[1])
                 IN IF items_missing(found, item_ids[1])
                    THEN HTTPException(D, s1, 404, "one or more items not found")
                    ELSE LET s2 == set_category_items(s1, category_id, found)
                         IN commit(D, s2, <<CategoryResponse(s2, category_id)>>)
            ELSE commit(D, s1, <<CategoryResponse(s1, category_id)>>)

\* ------------------------------------------------------------ filter route
RECURSIVE concat(_)
concat(ss) == IF ss = <<>> THEN <<>> ELSE Head(ss) \o concat(Tail(ss))

\* query.join(Item.categories).filter(Category.name.in_(categories)): one row
\* per join-table row of the item whose category is named in the list
joined_rows(D, i, names) ==
    LET cs == sorted_ids(Item_categories(D, i))
    IN concat([k \in 1..Len(cs) |->
                  IF D.categories[cs[k]] \in names
                  THEN [j \in 1..CopiesIn(<<i, cs[k]>>, D.item_category) |-> i]
                  ELSE <<>>])

\* and_(Item.price >= min_price, Item.price <= max_price)
price_in_range(price, min_price, max_price) == price >= min_price /\ price <= max_price

\* a Query that eager-loads a collection with joinedload returns each entity once
RECURSIVE unique_list(_)
unique_list_keeps_all(rows) == rows
unique_list(rows) ==
    IF rows = <<>> THEN <<>>
    ELSE LET rest == unique_list(SelectSeq(Tail(rows), LAMBDA x : x # Head(rows)))
         IN <<Head(rows)>> \o rest

\* query.all(): the items the built query selects
filter_query(D, cats, min_price, max_price) ==
    LET is == sorted_ids(DOMAIN D.items)
        rows == IF cats # None /\ cats[1] # <<>>
                THEN concat([k \in 1..Len(is) |-> joined_rows(D, is[k], Range(cats[1]))])
                ELSE is
        priced == SelectSeq(rows,
                      LAMBDA i : price_in_range(D.items[i].price, min_price, max_price))
    IN unique_list(priced)

\* GET /items
filter_items(D, cats, min_price, max_price) ==
    LET found == filter_query(D, cats, min_price, max_price)
    IN IF found = <<>>
       THEN HTTPException(D, D, 404, "no items found")
       ELSE Return(D, D, [k \in 1..Len(found) |-> ItemResponse(D, found[k])])

\* ---------------------------------------------------------------- requests
\* the error detail of a response, "" when it is not an error
detail_of(out) == IF out.status = 200 THEN "" ELSE out.body[1].detail

\* a request is handled to its end: the database is what its session left
Handle(op, out) ==
    /\ items' = out.db.items
    /\ categories' = out.db.categories
    /\ item_category' = out.db.item_category
    /\ resp' = [op |-> op, status |-> out.status, detail |-> detail_of(out)]
    /\ UNCHANGED sess

CreateItem(item) ==
    \E id \in new_item_ids(DB) : Handle("create_item", create_item(DB, item, id))

UpdateItem(item_id, item) == Handle("update_item", update_item(DB, item_id, item))

DeleteItem(item_id) == Handle("delete_item", delete_item(DB, item_id))

CreateCategory(category) == Handle("create_category", create_category(DB, category))

GetCategories == Handle("get_categories", get_categories(DB))

AddItemToCategory(category_id, item_id) ==
    Handle("add_item_to_category", add_item_to_category(DB, category_id, item_id))

UpdateCategory(category_id, category, item_ids) ==
    Handle("update_category", update_category(DB, category_id, category, item_ids))

FilterItems(cats, min_price, max_price) ==
    Handle("filter_items", filter_items(DB, cats, min_price, max_price))

\* ------------------------------------- add_item_to_category, step by step
\* Two requests run in two threads, each with its own session.  A request
\* first loads the category and the item and tests the membership
\* (lines 188-197), and later appends and commits (lines 198-199).
Idle == [pc |-> "idle", category_id |-> 0, item_id |-> 0]

AddItemCheck(t, category_id, item_id) ==
    /\ sess[t].pc = "idle"
    /\ get(categories, category_id) # None
    /\ get(items, item_id) # None
    /\ IF not_in_category(DB, category_id, item_id)
       THEN /\ sess' = [sess EXCEPT ![t] =
                   [pc |-> "append", category_id |-> category_id, item_id |-> item_id]]
            /\ UNCHANGED <<items, categories, item_category, resp>>
       ELSE /\ sess' = [sess EXCEPT ![t] =
                   [pc |-> "done", category_id |-> category_id, item_id |-> item_id]]
            /\ resp' = [op |-> "add_item_to_category", status |-> 200, detail |-> ""]
            /\ UNCHANGED <<items, categories, item_category>>

AddItemCommit(t) ==
    /\ sess[t].pc = "append"
    /\ LET s == append_item(DB, sess[t].category_id, sess[t].item_id)
           out == commit(DB, s, <<ItemResponse(s, sess[t].item_id)>>)
       IN /\ items' = out.db.items
          /\ categories' = out.db.categories
          /\ item_category' = out.db.item_category
          /\ resp' = [op |-> "add_item_to_category", status |-> out.status,
                      detail |-> detail_of(out)]
    /\ sess' = [sess EXCEPT ![t].pc = "done"]

\* ----------------------------------------------------------- specifications
\* Base.metadata.create_all(engine) on an empty database
Init ==
    /\ items = <<>>
    /\ categories = <<>>
    /\ item_category = EmptyBag
    /\ resp = [op |-> "none", status |-> 0, detail |-> ""]
    /\ sess = [t \in Sessions |-> Idle]

\* requests handled one after the other
Next ==
    \/ \E item \in ItemCreate : CreateItem(item)
    \/ \E item_id \in ItemIds, item \in ItemCreate : UpdateItem(item_id, item)
    \/ \E item_id \in ItemIds : DeleteItem(item_id)
    \/ \E name \in CatNames : CreateCategory([name |-> name])
    \/ GetCategories
    \/ \E category_id \in CatIds, item_id \in ItemIds :
           AddItemToCategory(category_id, item_id)
    \/ \E category_id \in CatIds, name \in CatNames, item_ids \in ItemIdsParam :
           UpdateCategory(category_id, [name |-> name], item_ids)
    \/ \E cats \in CategoriesParam, min_price \in MinPrices, max_price \in MaxPrices :
           FilterItems(cats, min_price, max_price)

Spec == Init /\ [][Next]_vars

\* items and categories are created, and two add_item_to_category requests interleave
NextConc ==
    \/ \E item \in ItemCreate : CreateItem(item)
    \/ \E name \in CatNames : CreateCategory([name |-> name])
    \/ \E t \in Sessions, category_id \in CatIds, item_id \in ItemIds :
           AddItemCheck(t, category_id, item_id)
    \/ \E t \in Sessions : AddItemCommit(t)

SpecConc == Init /\ [][NextConc]_vars

\* ------------------------------------------------------------------ claims
\* what the claims speak of
NameHeldByOther(D, category_id, name) ==
    \E c \in DOMAIN D.categories : c # category_id /\ D.categories[c] = name

HasMissingId(D, l) == \E k \in 1..Len(l) : l[k] \notin DOMAIN D.items

BodyIds(body) == {body[k].id : k \in 1..Len(body)}

\* C1: in every reachable state no two distinct categories have the same name.
C1_UniqueNames ==
    \A c1 \in DOMAIN categories, c2 \in DOMAIN categories :
        categories[c1] = categories[c2] => c1 = c2

\* a create or a rename was refused while two categories exist
C1_Witness ==
    /\ Cardinality(DOMAIN categories) = 2
    /\ resp.op \in {"create_category", "update_category"}
    /\ resp.status = 400

\* C2 as stated: update_category on an existing category, with an item_ids
\* list that holds an id of no item, answers 404 and leaves the database as it was.
C2_Original ==
    \A c \in DOMAIN categories, n \in CatNames, l \in IdLists :
        HasMissingId(DB, l) =>
            LET out == update_category(DB, c, [name |-> n], Some(l))
            IN out.status = 404 /\ out.db = DB

\* C2 as amended: such a request leaves the database as it was (the rename is
\* not kept), and answers 404 unless the name is held by another category,
\* in which case it answers 400.
C2_Amended ==
    \A c \in DOMAIN categories, n \in CatNames, l \in IdLists :
        HasMissingId(DB, l) =>
            LET out == update_category(DB, c, [name |-> n], Some(l))
            IN /\ out.status = IF NameHeldByOther(DB, c, n) THEN 400 ELSE 404
               /\ out.db = DB

\* an update of the only category was refused for an item id of no item
C2_Witness ==
    /\ resp.op = "update_category"
    /\ resp.status = 404
    /\ resp.detail = "one or more items not found"
    /\ Cardinality(DOMAIN categories) = 1
    /\ item_category # EmptyBag

\* C3 as stated: update_category on an existing category, with a name no other
\* category holds and an item_ids list of ids of existing items, answers 200;
\* the category's items become exactly the listed ones and the items of the
\* other categories stay.
C3_Claim ==
    \A c \in DOMAIN categories, n \in CatNames, l \in IdLists :
        (~NameHeldByOther(DB, c, n) /\ ~HasMissingId(DB, l)) =>
            LET out == update_category(DB, c, [name |-> n], Some(l))
            IN /\ out.status = 200
               /\ Category_items(out.db, c) = Range(l)
               /\ \A r \in BagToSet(out.db.item_category) :
                      r[2] = c => CopiesIn(r, out.db.item_category) = 1
               /\ \A r \in BagToSet(DB.item_category) \cup BagToSet(out.db.item_category) :
                      r[2] # c =>
                          CopiesIn(r, out.db.item_category) = CopiesIn(r, DB.item_category)

\* C4: add_item_to_category called twice in a row for an existing item and
\* category leaves the database the first call left, with one join row for
\* the pair, and the second call answers 200 with the item's category names.
C4_AddIdempotent ==
    \A c \in DOMAIN categories, i \in DOMAIN items :
        LET once == add_item_to_category(DB, c, i)
            twice == add_item_to_category(once.db, c, i)
            names == {twice.db.categories[x] :
                         x \in {y \in DOMAIN twice.db.categories :
                                   CopiesIn(<<i, y>>, twice.db.item_category) > 0}}
        IN /\ once.status = 200
           /\ twice.status = 200
           /\ twice.db = once.db
           /\ CopiesIn(<<i, c>>, twice.db.item_category) = 1
           /\ Len(twice.body) = 1
           /\ twice.body[1].id = i
           /\ Range(twice.body[1].categories) = names
           /\ Len(twice.body[1].categories) = Cardinality(names)

\* an item was added to a category, and some item is in both categories
C4_Witness ==
    /\ resp.op = "add_item_to_category"
    /\ resp.status = 200
    /\ \E i \in DOMAIN items : Cardinality(Item_categories(DB, i)) = 2

\* C5: every join row names an existing item and an existing category; and
\* deleting an existing item leaves no join row that names it, lists it under
\* no category and returns it from no filter.
C5_ReferentialIntegrity ==
    /\ \A r \in BagToSet(item_category) :
           r[1] \in DOMAIN items /\ r[2] \in DOMAIN categories
    /\ \A i \in DOMAIN items :
           LET out == delete_item(DB, i)
           IN /\ out.status = 200
              /\ i \notin DOMAIN out.db.items
              /\ \A r \in BagToSet(out.db.item_category) : r[1] # i
              /\ \A k \in 1..Len(get_categories(out.db).body) :
                     i \notin BodyIds(get_categories(out.db).body[k].items)
              /\ \A cats \in CategoriesParam, lo \in MinPrices, hi \in MaxPrices :
                     LET f == filter_items(out.db, cats, lo, hi)
                     IN f.status = 200 => i \notin BodyIds(f.body)

\* an item was deleted while another item stays in a category
C5_Witness ==
    /\ resp.op = "delete_item"
    /\ resp.status = 200
    /\ item_category # EmptyBag

\* C6: create_category with a name some category holds answers 400 and leaves
\* the database as it was; with a name no category holds it answers 200 and
\* adds exactly one category, of that name, with no items.
C6_CreateCategory ==
    \A n \in CatNames :
        LET out == create_category(DB, [name |-> n])
            added == DOMAIN out.db.categories \ DOMAIN categories
        IN IF \E c \in DOMAIN categories : categories[c] = n
           THEN out.status = 400 /\ out.db = DB
           ELSE /\ out.status = 200
                /\ out.db.items = items
                /\ out.db.item_category = item_category
                /\ Cardinality(added) = 1
                /\ DOMAIN categories \subseteq DOMAIN out.db.categories
                /\ \A c \in DOMAIN categories : out.db.categories[c] = categories[c]
                /\ \A c \in added :
                       /\ out.db.categories[c] = n
                       /\ Category_items(out.db, c) = {}
                       /\ out.body = <<[id |-> c, name |-> n, items |-> <<>>]>>

\* a category was refused for its name, after items were put in categories
C6_Witness ==
    /\ resp.op = "create_category"
    /\ resp.status = 400
    /\ item_category # EmptyBag

\* C7: update_category on an existing category answers 400 exactly when the
\* name is held by a category of another id, and then leaves the database as
\* it was.
C7_RenameConflict ==
    \A c \in DOMAIN categories, n \in CatNames, ids \in ItemIdsParam :
        LET out == update_category(DB, c, [name |-> n], ids)
        IN /\ (out.status = 400) <=> NameHeldByOther(DB, c, n)
           /\ out.status = 400 => out.db = DB

\* a rename was refused
C7_Witness ==
    /\ resp.op = "update_category"
    /\ resp.status = 400
    /\ resp.detail = "category name already exists"

\* C8: filter_items returns, each once, exactly the items priced within
\* [min_price, max_price] that, when a non-empty list of names is given, are
\* in a category of one of these names; it answers 404 exactly when there is
\* none, and leaves the database as it was.
C8_Filter ==
    \A cats \in CategoriesParam, lo \in MinPrices, hi \in MaxPrices :
        LET out == filter_items(DB, cats, lo, hi)
            listed == cats # None /\ Len(cats[1]) > 0
            expected ==
                {i \in DOMAIN items :
                    /\ lo <= items[i].price
                    /\ items[i].price <= hi
                    /\ listed =>
                           \E c \in DOMAIN categories :
                               /\ CopiesIn(<<i, c>>, item_category) > 0
                               /\ categories[c] \in Range(cats[1])}
        IN /\ out.db = DB
           /\ out.status = IF expected = {} THEN 404 ELSE 200
           /\ out.status = 200 =>
                  /\ BodyIds(out.body) = expected
                  /\ Len(out.body) = Cardinality(expected)

\* a filter found items while an item is in both categories
C8_Witness ==
    /\ resp.op = "filter_items"
    /\ resp.status = 200
    /\ \E i \in DOMAIN items : Cardinality(Item_categories(DB, i)) = 2

\* C9: update_item and delete_item with an id of no item answer 404 and leave
\* the database as it was.
C9_MissingItem ==
    \A id \in ItemIds \ DOMAIN items :
        /\ \A item \in ItemCreate :
               LET out == update_item(DB, id, item)
               IN out.status = 404 /\ out.db = DB
        /\ LET out == delete_item(DB, id)
           IN out.status = 404 /\ out.db = DB

\* an update or a delete named no item, while the tables hold rows
C9_Witness ==
    /\ resp.op \in {"update_item", "delete_item"}
    /\ resp.status = 404
    /\ items # <<>>
    /\ item_category # EmptyBag

\* C10 as stated: once two add_item_to_category requests for the same pair,
\* run concurrently, have both ended, the join table holds one row for the pair.
C10_Claim ==
    \A t \in Sessions, u \in Sessions :
        (/\ t # u
         /\ sess[t].pc = "done"
         /\ sess[u].pc = "done"
         /\ sess[t].category_id = sess[u].category_id
         /\ sess[t].item_id = sess[u].item_id) =>
            CopiesIn(<<sess[t].item_id, sess[t].category_id>>, item_category) = 1

====
